---- MODULE Spec2Model ----
(***************************************************************************)
(* Load-balancing simulation: Server, the five balancing policies and the  *)
(* LoadBalancer that runs them.  The repository holds three variants of    *)
(* the same program:                                                       *)
(*   "wallclock"  src/unnamed/part_000            (Server without          *)
(*                capability, wall-clock driver, ACO without placement),   *)
(*   "queue"      src/performance_comparison.cpp  lines 1-365 (Server      *)
(*                keeps a vector of task times, ACO with 100 iterations),  *)
(*   "simulated"  src/performance_comparison.cpp  lines 367-673 (Server    *)
(*                with a numeric load, ACO is a random placeholder).       *)
(* Server indices are 0-based as in the source: a pool is a function on    *)
(* 0..S-1.  taskLoads is a sequence; task taskId is taskLoads[taskId+1].   *)
(* Task weights are doubles in the source; the model draws them from the   *)
(* integers, on which double arithmetic (below 2^53) is exact.             *)
(***************************************************************************)
EXTENDS Integers, Sequences, FiniteSets, TLC

\* ---------------------------------------------------------------- bounds
MaxServers == 2      \* pools have 0..MaxServers servers
MaxTasks == 3        \* tasks handed to the policy objects alive together
MaxAnts == 2         \* tasks of one Ant Colony Optimization call
MaxIterations == 1   \* cap on the ACO iteration count of the queue variant
MaxScale == 3        \* capability scale factors 1..MaxScale (throughput)
MaxRounds == 8       \* evaporation rounds applied to one matrix

\* ------------------------------------------------------ program constants
MIN_CAPABILITY == 1
MAX_CAPABILITY == 100
MinTaskLoad == 1
NumIterationsWallclock == 1
NumIterationsQueue == 100

Variants == {"wallclock", "queue", "simulated"}

Policies == {"Random", "RoundRobin", "WeightedRoundRobin",
             "ActiveClustering", "AntColonyOptimization"}

\* generateRandomTaskLoads draws from [1.0, 10.0]; the model takes the
\* smallest weight and the next integer.
TaskWeights == {MinTaskLoad, MinTaskLoad + 1}

\* All task sequences of length 0..n.
TaskSeqs(n) == UNION {[1..k -> TaskWeights] : k \in 0..n}

Min(a, b) == IF a < b THEN a ELSE b

RECURSIVE SumSeq(_)
SumSeq(s) == IF s = <<>> THEN 0 ELSE s[1] + SumSeq(Tail(s))

\* ------------------------------------------------------------------ Server
\* total_load of the queue variant is an int the constructor leaves
\* uninitialised: <<>> stands for its indeterminate value, <<n>> for n.  No
\* getter reads it back.
Indeterminate == <<>>

HasCapability(v) == v # "wallclock"

\* Server::Server: the three constructors.
Server(v, id, capability) ==
    CASE v = "wallclock" -> [id |-> id, load |-> 0]
      [] v = "simulated" -> [id |-> id, capability |-> capability, load |-> 0]
      [] v = "queue"     -> [id |-> id, capability |-> capability, load |-> 0,
                             total_load |-> Indeterminate, loads |-> <<>>]

\* A getLoad that adds up the entries of the queue.
getLoadSum(v, s) == IF v = "queue" THEN SumSeq(s.loads) ELSE s.load

\* Server::getLoad
getLoad(v, s) == IF v = "queue" THEN Len(s.loads) ELSE s.load

\* addLoad that overwrites the load instead of accumulating.
addLoadOverwrite(v, s, taskLoad) ==
    IF v = "queue"
    THEN [s EXCEPT !.loads = <<taskLoad>>]
    ELSE [s EXCEPT !.load = taskLoad]

\* Server::addLoad
addLoad(v, s, taskLoad) ==
    IF v = "queue"
    THEN [s EXCEPT !.loads = Append(@, taskLoad),
                   !.total_load = IF @ = Indeterminate THEN @ ELSE <<@[1] + 1>>]
    ELSE [s EXCEPT !.load = @ + taskLoad]

\* A reset that leaves the load as it is.
resetLoadKeep(v, s) == s

\* Server::resetLoad / Server::reset
resetLoad(v, s) ==
    IF v = "queue"
    THEN [s EXCEPT !.total_load = <<0>>, !.loads = <<>>]
    ELSE [s EXCEPT !.load = 0]

\* Server::getId
getId(s) == s.id

\* Server::getCapability
getCapability(s) == s.capability

\* ------------------------------------------------------------------- pools
size(pool) == Cardinality(DOMAIN pool)

\* A constructor that numbers the servers from 1.
NewPoolFromOne(v, capabilities) ==
    [i \in DOMAIN capabilities |-> Server(v, i + 1, capabilities[i])]

\* LoadBalancer::LoadBalancer: server i gets id i and capabilities[i].
NewPool(v, capabilities) ==
    [i \in DOMAIN capabilities |-> Server(v, i, capabilities[i])]

\* The capability vectors generateRandomCapabilities can return: the model
\* takes an ascending and a descending one within [MIN, MAX].
CapabilityVectors(v, S) ==
    IF HasCapability(v)
    THEN {[i \in 0..(S - 1) |-> MIN_CAPABILITY + i],
          [i \in 0..(S - 1) |-> MAX_CAPABILITY - i]}
    ELSE {[i \in 0..(S - 1) |-> MIN_CAPABILITY]}

\* Sum of getLoad over the pool (LoadBalancer::getTotalLoad's loop).
RECURSIVE SumLoads(_, _, _)
SumLoads(v, pool, i) ==
    IF i >= size(pool) THEN 0 ELSE getLoad(v, pool[i]) + SumLoads(v, pool, i + 1)

TotalLoad(v, pool) == SumLoads(v, pool, 0)

\* The scan with > in place of <: it returns a most loaded server.
RECURSIVE ScanMax(_, _, _, _, _)
ScanMax(v, pool, i, minLoad, minLoadServer) ==
    IF i >= size(pool) THEN minLoadServer
    ELSE IF getLoad(v, pool[i]) > minLoad
         THEN ScanMax(v, pool, i + 1, getLoad(v, pool[i]), getId(pool[i]))
         ELSE ScanMax(v, pool, i + 1, minLoad, minLoadServer)

\* The scan with <= in place of <: ties go to the last server.
RECURSIVE ScanMinLast(_, _, _, _, _)
ScanMinLast(v, pool, i, minLoad, minLoadServer) ==
    IF i >= size(pool) THEN minLoadServer
    ELSE IF getLoad(v, pool[i]) <= minLoad
         THEN ScanMinLast(v, pool, i + 1, getLoad(v, pool[i]), getId(pool[i]))
         ELSE ScanMinLast(v, pool, i + 1, minLoad, minLoadServer)

\* The least-loaded scan shared by updateCurrentServer and Active Clustering:
\* start from servers[0], replace on a strictly smaller load, return the id.
RECURSIVE ScanMin(_, _, _, _, _)
ScanMin(v, pool, i, minLoad, minLoadServer) ==
    IF i >= size(pool) THEN minLoadServer
    ELSE IF getLoad(v, pool[i]) < minLoad
         THEN ScanMin(v, pool, i + 1, getLoad(v, pool[i]), getId(pool[i]))
         ELSE ScanMin(v, pool, i + 1, minLoad, minLoadServer)

MinLoadServer(v, pool) ==
    ScanMin(v, pool, 0, getLoad(v, pool[0]), getId(pool[0]))

\* ------------------------------------------------------------------- state
\* Policy objects: object 0 is the local `algorithm` of LoadBalancer::run,
\* object 1 is a policy object that a client of the classes constructs itself.
Objects == {0, 1}

VARIABLES
    variant,        \* which of the three program variants runs
    lbServers,      \* LoadBalancer<P>::servers, one pool per policy type P
    clientServers,  \* a std::vector<Server> owned by a client of the classes
    algServers,     \* the `servers` member of each policy object
    alg,            \* the policy objects: type, what `servers` designates,
                    \* currentServer, and the number of tasks handed so far
    pc,             \* "idle", "running" (inside balanceLoad) or "crashed"
    active,         \* the object whose balanceLoad is running
    taskLoads,      \* the argument of the running balanceLoad
    taskId,         \* position of the task loop
    iteration,      \* ACO: the iteration counter
    phase,          \* ACO: "move", "update" or "reset" within an iteration
    pheromones,     \* ACO: the local pheromone matrix, <<>> outside ACO
    ub,             \* kinds of invalid operation executed by the running call
    pre,            \* history: loads and cursor when the call began
    throughputs,    \* main's vector throughputs, one entry per policy
    main,           \* the position and the locals of main
    draw            \* an observed selectNextServer call: its draw, its result

vars == <<variant, lbServers, clientServers, algServers, alg, pc, active,
          taskLoads, taskId, iteration, phase, pheromones, ub, pre,
          throughputs, main, draw>>

\* main is not part of the behaviour: the operations are called freely.
MainOff == [pc |-> "off", k |-> 0, taskLoads |-> <<>>, fed |-> 0,
            simulatedTime |-> 0, calls |-> 0]

NoObject == [type |-> "none", servers |-> <<"none", "none">>,
             currentServer |-> 0, handed |-> 0]

NoPre == [loads |-> <<>>, currentServer |-> 0]

\* What a reference to a std::vector<Server> designates.
Deref(ref) ==
    CASE ref[1] = "lb"     -> lbServers[ref[2]]
      [] ref[1] = "client" -> clientServers
      [] ref[1] = "alg"    -> algServers[ref[2]]

\* Assignment through a reference: only the designated vector changes.
Store(ref, pool) ==
    /\ lbServers' = IF ref[1] = "lb"
                    THEN [lbServers EXCEPT ![ref[2]] = pool] ELSE lbServers
    /\ clientServers' = IF ref[1] = "client" THEN pool ELSE clientServers
    /\ algServers' = IF ref[1] = "alg"
                     THEN [algServers EXCEPT ![ref[2]] = pool] ELSE algServers

\* A member held by reference would designate the constructor's argument.
BindByReference(o, arg) == arg

\* The initialiser `servers(servers)` of the five policy constructors: the
\* member is a std::vector<Server> held by value, so it designates the
\* object's own storage (filled with a copy of the argument).
Bind(o, arg) == <<"alg", o>>

\* The loads of a pool as the policies see them (getLoad of each server).
Loads(v, pool) == [i \in DOMAIN pool |-> getLoad(v, pool[i])]

Cur == alg[active]
CurServers == Deref(Cur.servers)
numTasks == Len(taskLoads)
taskLoad == taskLoads[taskId + 1]

\* Values an out-of-range read can leave in an int.
GarbageInts == {-1, 0}

Init ==
    /\ variant \in Variants
    /\ \E S \in 0..MaxServers :
         \E capabilities \in CapabilityVectors(variant, S) :
            lbServers = [p \in Policies |-> NewPool(variant, capabilities)]
    /\ clientServers = <<>>
    /\ algServers = [o \in Objects |-> <<>>]
    /\ alg = [o \in Objects |-> NoObject]
    /\ pc = "idle"
    /\ active = 0
    /\ taskLoads = <<>>
    /\ taskId = 0
    /\ iteration = 0
    /\ phase = "none"
    /\ pheromones = <<>>
    /\ ub = {}
    /\ pre = NoPre
    /\ throughputs = [p \in Policies |-> <<>>]
    /\ main = MainOff
    /\ draw = <<>>

\* ----------------------------------------------------------- client, driver
\* The vectors a client builds before it constructs a policy object: the
\* servers of the pool with ids 0..S-1, none loaded or one of them loaded by
\* a single addLoad (Server::addLoad is public).
ClientPools ==
    LET like == lbServers["Random"]
        unloaded == [i \in DOMAIN like |->
                        Server(variant, i, IF HasCapability(variant)
                                           THEN getCapability(like[i])
                                           ELSE MIN_CAPABILITY)]
    IN {unloaded} \cup {[unloaded EXCEPT ![i] = addLoad(variant, @, w)] :
                        i \in DOMAIN unloaded, w \in TaskWeights}

\* A client builds a vector and constructs a policy object on it:
\* P algorithm(servers).
Construct ==
    /\ pc = "idle"
    /\ \E o \in Objects \ {0} : \E p \in Policies : \E pool \in ClientPools :
         /\ alg[o].type = "none"
         /\ clientServers' = pool
         /\ algServers' = [algServers EXCEPT ![o] = pool]
         /\ alg' = [alg EXCEPT ![o] =
                      [type |-> p, servers |-> Bind(o, <<"client", 0>>),
                       currentServer |-> 0, handed |-> 0]]
    /\ UNCHANGED <<variant, draw, throughputs, main, lbServers, pc, active, taskLoads,
                   taskId, iteration, phase, pheromones, ub, pre>>

\* The number of iterations of ACO's outer loop.  The wallclock variant
\* runs 1; the queue variant runs 100, capped here by MaxIterations; the
\* placeholder of the simulated variant has no outer loop.
numIterations ==
    CASE variant = "wallclock" -> NumIterationsWallclock
      [] variant = "queue"     -> Min(NumIterationsQueue, MaxIterations)
      [] variant = "simulated" -> 0

\* A matrix with one row per server instead of one row per task.
InitialPheromonesSquare(nTasks, nServers) ==
    [t \in 0..(nServers - 1) |-> [s \in 0..(nServers - 1) |-> <<1, 1>>]]

\* Rows built without the initial value: value-initialised to 0.0.
InitialPheromonesZero(nTasks, nServers) ==
    [t \in 0..(nTasks - 1) |-> [s \in 0..(nServers - 1) |-> <<0, 1>>]]

\* std::vector<std::vector<double>> pheromones(numTasks, vector(numServers, 1.0))
\* Entries are rationals <<numerator, denominator>>.
InitialPheromones(nTasks, nServers) ==
    [t \in 0..(nTasks - 1) |-> [s \in 0..(nServers - 1) |-> <<1, 1>>]]

\* Entry into balanceLoad of object o, whose members are obj, with the
\* task list tasks: the locals of the call are initialised.
Enter(o, obj, pool, tasks) ==
    /\ pc' = "running"
    /\ active' = o
    /\ taskLoads' = tasks
    /\ taskId' = 0
    /\ iteration' = 0
    /\ ub' = {}
    /\ pre' = [loads |-> Loads(variant, pool), currentServer |-> obj.currentServer]
    /\ IF obj.type = "AntColonyOptimization" /\ variant # "simulated"
       THEN /\ pheromones' = InitialPheromones(Len(tasks), size(pool))
            /\ phase' = IF variant = "wallclock" THEN "update" ELSE "move"
       ELSE /\ pheromones' = <<>>
            /\ phase' = "none"

\* Tasks handed so far to the policy objects that are alive.
Handed == alg[0].handed + alg[1].handed

\* The task lists handed to a policy of type p when n tasks are left.
Batches(p, n) ==
    TaskSeqs(IF p = "AntColonyOptimization" THEN Min(n, MaxAnts) ELSE n)

\* No client of the classes holds a policy object (as in the three mains).
DriverOnly == \A o \in Objects \ {0} : alg[o].type = "none"

\* The task lists LoadBalancer::run is called with: a whole batch (the
\* wall-clock and the queue main), or the one-task list {taskLoad} of the
\* simulated-time main; next to a client's policy object the model keeps to
\* the one-task lists.
RunBatches(p) ==
    IF DriverOnly THEN Batches(p, MaxTasks)
    ELSE Batches(p, Min(1, MaxTasks - Handed))

\* LoadBalancer<P>::run: a policy object is constructed on the
\* LoadBalancer's servers and its balanceLoad is entered.
RunCall(p, tasks) ==
    LET obj == [type |-> p, servers |-> Bind(0, <<"lb", p>>),
                currentServer |-> 0, handed |-> Len(tasks)]
    IN /\ algServers' = [algServers EXCEPT ![0] = lbServers[p]]
       /\ alg' = [alg EXCEPT ![0] = obj]
       /\ Enter(0, obj, lbServers[p], tasks)
       /\ UNCHANGED <<variant, draw, throughputs, lbServers, clientServers>>

\* run called by a client of LoadBalancer, on any policy and task list.
Run ==
    /\ pc = "idle"
    /\ \E p \in Policies : \E tasks \in RunBatches(p) : RunCall(p, tasks)
    /\ UNCHANGED main

\* A cursor set back to 0 whenever balanceLoad is entered.
CursorAtEntryReset(obj) == 0

\* The member currentServer is initialised by the constructor only:
\* balanceLoad starts from the value the previous call left.
CursorAtEntry(obj) == obj.currentServer

\* A client calls balanceLoad on a policy object it constructed earlier.
BalanceLoad ==
    /\ pc = "idle"
    /\ \E o \in Objects \ {0} :
       \E tasks \in Batches(alg[o].type, MaxTasks - Handed) :
         /\ alg[o].type # "none"
         /\ alg' = [alg EXCEPT ![o].handed = @ + Len(tasks),
                               ![o].currentServer = CursorAtEntry(alg[o])]
         /\ Enter(o, alg[o], Deref(alg[o].servers), tasks)
    /\ UNCHANGED <<variant, draw, throughputs, main, lbServers, clientServers, algServers>>

\* --------------------------------------------------------------- the calls
Running(p) == pc = "running" /\ Cur.type = p

\* servers[i].addLoad(taskLoad) on the running object, i inside the pool.
Assign(i, cursor) ==
    /\ Store(Cur.servers, [CurServers EXCEPT ![i] = addLoad(variant, @, taskLoad)])
    /\ alg' = [alg EXCEPT ![active].currentServer = cursor]
    /\ taskId' = taskId + 1
    /\ UNCHANGED <<variant, draw, throughputs, main, pc, active, taskLoads, iteration, phase,
                   pheromones, ub, pre>>

\* An invalid operation of the given kinds: the process dies there, or the
\* stray access misses the modelled memory and the loop goes on with an
\* unspecified cursor.
Invalid(kinds, cursors) ==
    /\ ub' = ub \cup kinds
    /\ \/ /\ pc' = "crashed"
          /\ UNCHANGED <<alg, taskId>>
       \/ /\ pc' = pc
          /\ taskId' = taskId + 1
          /\ \E c \in cursors : alg' = [alg EXCEPT ![active].currentServer = c]
    /\ UNCHANGED <<variant, draw, throughputs, main, lbServers, clientServers, algServers, active,
                   taskLoads, iteration, phase, pheromones, pre>>

\* RandomLoadBalancing::balanceLoad, one pass of the loop.  With an empty
\* pool the distribution is built on (0, -1) and its draw is unconstrained.
RandomStep ==
    /\ Running("Random")
    /\ taskId < numTasks
    /\ IF size(CurServers) > 0
       THEN \E randomServer \in 0..(size(CurServers) - 1) :
               Assign(randomServer, Cur.currentServer)
       ELSE Invalid({"out_of_range"}, {Cur.currentServer})

\* A cursor that is never advanced.
NextServerStuck(currentServer, n) == currentServer

\* currentServer = (currentServer + 1) % servers.size()
NextServer(currentServer, n) == (currentServer + 1) % n

\* RoundRobinLoadBalancing::balanceLoad, one pass of the loop.
RoundRobinStep ==
    /\ Running("RoundRobin")
    /\ taskId < numTasks
    /\ IF Cur.currentServer \in DOMAIN CurServers
       THEN Assign(Cur.currentServer,
                   NextServer(Cur.currentServer, size(CurServers)))
       ELSE \/ Invalid({"out_of_range"}, {}) 
            \/ Invalid({"out_of_range", "division_by_zero"}, GarbageInts)

\* A selector that prefers, among the least loaded servers, the one of
\* highest capability.
updateCurrentServerByCapability(v, pool) ==
    IF HasCapability(v)
    THEN CHOOSE i \in DOMAIN pool :
            /\ \A j \in DOMAIN pool : getLoad(v, pool[i]) <= getLoad(v, pool[j])
            /\ \A j \in DOMAIN pool :
                  getLoad(v, pool[j]) = getLoad(v, pool[i])
                     => getCapability(pool[j]) <= getCapability(pool[i])
    ELSE MinLoadServer(v, pool)

\* WeightedRoundRobinLoadBalancing::updateCurrentServer
updateCurrentServer(v, pool) == MinLoadServer(v, pool)

\* WeightedRoundRobinLoadBalancing::balanceLoad, one pass of the loop.
WeightedRoundRobinStep ==
    /\ Running("WeightedRoundRobin")
    /\ taskId < numTasks
    /\ IF Cur.currentServer \in DOMAIN CurServers
       THEN Assign(Cur.currentServer,
                   updateCurrentServer(variant,
                       [CurServers EXCEPT ![Cur.currentServer] =
                            addLoad(variant, @, taskLoad)]))
       ELSE Invalid({"out_of_range"}, GarbageInts)

\* ActiveClusteringLoadBalancing::balanceLoad, one pass of the loop: the id
\* found by the scan is used as the index, servers[minLoadServer].
ActiveClusteringStep ==
    /\ Running("ActiveClustering")
    /\ taskId < numTasks
    /\ IF /\ size(CurServers) > 0
          /\ MinLoadServer(variant, CurServers) \in DOMAIN CurServers
       THEN Assign(MinLoadServer(variant, CurServers), Cur.currentServer)
       ELSE Invalid({"out_of_range"}, {Cur.currentServer})

\* ------------------------------------------------- Ant Colony Optimization
\* Doubles are modelled by exact rationals <<numerator, denominator>> with
\* a positive denominator, in lowest terms.
RECURSIVE GCD(_, _)
GCD(a, b) == IF b = 0 THEN a ELSE GCD(b, a % b)

Norm(r) ==
    LET g == GCD(IF r[1] < 0 THEN -r[1] ELSE r[1], r[2])
    IN IF g = 0 THEN r ELSE <<r[1] \div g, r[2] \div g>>

\* Sums and comparisons go through the least common denominator, which
\* keeps the intermediate integers small.
LCM(a, b) == (a \div GCD(a, b)) * b

RAdd(a, b) ==
    LET l == LCM(a[2], b[2])
    IN Norm(<<a[1] * (l \div a[2]) + b[1] * (l \div b[2]), l>>)
RSub(a, b) == RAdd(a, <<-b[1], b[2]>>)
RMul(a, b) == Norm(<<a[1] * b[1], a[2] * b[2]>>)
RDiv(a, b) == Norm(<<a[1] * b[2], a[2] * b[1]>>)
RLeq(a, b) ==
    LET l == LCM(a[2], b[2])
    IN a[1] * (l \div a[2]) <= b[1] * (l \div b[2])
RInt(n) == <<n, 1>>

\* std::pow with the integral exponents the program passes.
RECURSIVE Pow(_, _)
Pow(r, e) == IF e = 0 THEN RInt(1) ELSE RMul(r, Pow(r, e - 1))

\* The parameters of balanceLoad.
alpha == 1
beta == 2
rho == <<1, 2>>
Q == <<1, 1>>

\* selectNextServer, first loop: the vector probabilities (entry
\* serverId + 1 of the sequence is probabilities[serverId]).
RECURSIVE Probabilities(_, _, _, _, _)
Probabilities(v, pool, pheromoneRow, w, serverId) ==
    IF serverId < 0 THEN <<>>
    ELSE LET pheromone == pheromoneRow[serverId]
             heuristic == RDiv(RInt(1),
                               Pow(RInt(getLoad(v, pool[serverId]) + w), beta))
         IN Append(Probabilities(v, pool, pheromoneRow, w, serverId - 1),
                   RMul(Pow(pheromone, alpha), heuristic))

\* The values cumulativeProbability takes in the second loop; the last one
\* is totalProbability.
RECURSIVE Cumulative(_, _)
Cumulative(probabilities, n) ==
    IF n = 0 THEN <<>>
    ELSE LET before == Cumulative(probabilities, n - 1)
         IN Append(before, RAdd(IF n = 1 THEN RInt(0) ELSE before[n - 1],
                                probabilities[n]))

\* The draws of uniform_real_distribution(0.0, totalProbability) the model
\* takes: 0 and the midpoint of every server's interval of the wheel.
Selections(cumulative) ==
    {RInt(0)} \cup
    {RDiv(RAdd(IF n = 1 THEN RInt(0) ELSE cumulative[n - 1], cumulative[n]),
          RInt(2)) : n \in DOMAIN cumulative}

\* A wheel that passes a server whose cumulative probability equals the draw.
RECURSIVE RouletteStrict(_, _, _)
RouletteStrict(cumulative, selection, serverId) ==
    IF serverId >= Len(cumulative) THEN Len(cumulative) - 1
    ELSE IF ~RLeq(cumulative[serverId + 1], selection)
         THEN serverId
         ELSE RouletteStrict(cumulative, selection, serverId + 1)

\* selectNextServer, second loop: the first server whose cumulative
\* probability reaches the draw, else numServers - 1.
RECURSIVE Roulette(_, _, _)
Roulette(cumulative, selection, serverId) ==
    IF serverId >= Len(cumulative) THEN Len(cumulative) - 1
    ELSE IF RLeq(selection, cumulative[serverId + 1])
         THEN serverId
         ELSE Roulette(cumulative, selection, serverId + 1)

\* What selectNextServer returns for task t when dis(gen) yields selection.
selectNextServerAt(v, pool, phero, tasks, t, selection) ==
    LET probabilities ==
            Probabilities(v, pool, phero[t], tasks[t + 1], size(pool) - 1)
    IN Roulette(Cumulative(probabilities, Len(probabilities)), selection, 0)

\* The servers selectNextServer can return for task t.
selectNextServer(v, pool, phero, tasks, t) ==
    LET probabilities ==
            Probabilities(v, pool, phero[t], tasks[t + 1], size(pool) - 1)
        cumulative == Cumulative(probabilities, Len(probabilities))
    IN {Roulette(cumulative, selection, 0) : selection \in Selections(cumulative)}

\* An evaporation that subtracts rho instead of scaling by 1 - rho.
EvaporateSubtract(phero) ==
    [t \in DOMAIN phero |->
        [s \in DOMAIN phero[t] |-> RSub(phero[t][s], rho)]]

\* updatePheromones, first loop.
Evaporate(phero) ==
    [t \in DOMAIN phero |->
        [s \in DOMAIN phero[t] |-> RMul(phero[t][s], RSub(RInt(1), rho))]]

\* A deposit that reaches only the servers that hold a task.
DepositLoadedOnly(v, pool, phero, tasks) ==
    [t \in DOMAIN phero |->
        [s \in DOMAIN phero[t] |->
            IF getLoad(v, pool[s]) = 0 THEN phero[t][s]
            ELSE RAdd(phero[t][s],
                      RDiv(Q, RInt(getLoad(v, pool[s]) + tasks[t + 1])))]]

\* updatePheromones, second loop.
Deposit(v, pool, phero, tasks) ==
    [t \in DOMAIN phero |->
        [s \in DOMAIN phero[t] |->
            RAdd(phero[t][s],
                 RDiv(Q, RInt(getLoad(v, pool[s]) + tasks[t + 1])))]]

\* The two loops in the other order: the deposit is evaporated too.
updatePheromonesDepositFirst(v, pool, phero, tasks) ==
    Evaporate(Deposit(v, pool, phero, tasks))

\* AntColonyOptimizationLoadBalancing::updatePheromones
updatePheromones(v, pool, phero, tasks) ==
    Deposit(v, pool, Evaporate(phero), tasks)

InACO ==
    /\ Running("AntColonyOptimization")
    /\ variant # "simulated"
    /\ iteration < numIterations

\* balanceLoad, "Move ants": one pass of the task loop (queue variant; the
\* loop is commented out in the wallclock variant).
ACOMove ==
    /\ InACO
    /\ phase = "move"
    /\ taskId < numTasks
    /\ \E currentServer \in selectNextServer(variant, CurServers, pheromones,
                                             taskLoads, taskId) :
         IF currentServer \in DOMAIN CurServers
         THEN Assign(currentServer, Cur.currentServer)
         ELSE Invalid({"out_of_range"}, {Cur.currentServer})

\* balanceLoad, "Update pheromones".
ACOUpdate ==
    /\ InACO
    /\ \/ phase = "update"
       \/ phase = "move" /\ taskId >= numTasks
    /\ pheromones' = updatePheromones(variant, CurServers, pheromones, taskLoads)
    /\ phase' = "reset"
    /\ UNCHANGED <<variant, draw, throughputs, main, lbServers, clientServers, algServers, alg, pc,
                   active, taskLoads, taskId, iteration, ub, pre>>

\* balanceLoad, "Reset server loads", and the end of the iteration.
ACOReset ==
    /\ InACO
    /\ phase = "reset"
    /\ Store(Cur.servers, [i \in DOMAIN CurServers |->
                              resetLoad(variant, CurServers[i])])
    /\ iteration' = iteration + 1
    /\ taskId' = 0
    /\ phase' = IF variant = "wallclock" THEN "update" ELSE "move"
    /\ UNCHANGED <<variant, draw, throughputs, main, alg, pc, active, taskLoads, pheromones, ub, pre>>

\* The placeholder balanceLoad of the simulated variant, one pass of the
\* loop: getRandomServer draws from (0, servers.size() - 1).
ACOPlaceholderStep ==
    /\ Running("AntColonyOptimization")
    /\ variant = "simulated"
    /\ taskId < numTasks
    /\ IF size(CurServers) > 0
       THEN \E randomServer \in 0..(size(CurServers) - 1) :
               Assign(randomServer, Cur.currentServer)
       ELSE Invalid({"out_of_range"}, {Cur.currentServer})

\* The loops of the running balanceLoad have ended.
CallDone ==
    /\ pc = "running"
    /\ IF Cur.type = "AntColonyOptimization" /\ variant # "simulated"
       THEN iteration >= numIterations
       ELSE taskId >= numTasks

\* balanceLoad returns; the local `algorithm` of run is destroyed with it.
Return ==
    /\ CallDone
    /\ pc' = "idle"
    /\ active' = 0
    /\ taskLoads' = <<>>
    /\ taskId' = 0
    /\ iteration' = 0
    /\ phase' = "none"
    /\ pheromones' = <<>>
    /\ ub' = {}
    /\ pre' = NoPre
    /\ IF active = 0
       THEN /\ alg' = [alg EXCEPT ![0] = NoObject]
            /\ algServers' = [algServers EXCEPT ![0] = <<>>]
       ELSE UNCHANGED <<alg, algServers>>
    /\ UNCHANGED <<variant, draw, throughputs, main, lbServers, clientServers>>

\* ------------------------------------------------------------- throughput
\* LoadBalancer::getTotalLoad
getTotalLoad(v, pool) == TotalLoad(v, pool)

\* getThroughput's loop: totalCapability.
RECURSIVE SumCapabilities(_, _)
SumCapabilities(pool, i) ==
    IF i >= size(pool) THEN 0
    ELSE getCapability(pool[i]) + SumCapabilities(pool, i + 1)

\* The quotient grouped the other way: totalLoad / (simulatedTime / totalCapability).
getThroughputGrouped(v, pool, simulatedTime) ==
    RDiv(RInt(getTotalLoad(v, pool)),
         RDiv(RInt(simulatedTime), RInt(SumCapabilities(pool, 0))))

\* LoadBalancer::getThroughput: totalLoad / simulatedTime / totalCapability.
\* A quotient by zero is <<n, 0>> (an infinity, or NaN for <<0, 0>>).
getThroughput(v, pool, simulatedTime) ==
    RDiv(RDiv(RInt(getTotalLoad(v, pool)), RInt(simulatedTime)),
         RInt(SumCapabilities(pool, 0)))

\* A pool whose server i has capability capabilities[i] and has received
\* counts[i] tasks of the smallest weight.
RECURSIVE Loaded(_, _, _)
Loaded(v, s, n) == IF n = 0 THEN s ELSE addLoad(v, Loaded(v, s, n - 1), MinTaskLoad)

LoadedPool(v, capabilities, counts) ==
    [i \in DOMAIN capabilities |->
        Loaded(v, Server(v, i, capabilities[i]), counts[i])]

\* getThroughput as a function of the pool: the LoadBalancer of Random has
\* the pool drawn, the four others the same loads with every capability
\* multiplied by k; taskId holds the simulated time of the reading.
InitThroughput ==
    /\ variant \in {"queue", "simulated"}
    /\ \E S \in 0..MaxServers :
       \E capabilities \in CapabilityVectors(variant, S) :
       \E counts \in [0..(S - 1) -> 0..MaxAnts] :
       \E k \in 1..MaxScale :
          lbServers = [p \in Policies |->
              LoadedPool(variant,
                         [i \in 0..(S - 1) |->
                             IF p = "Random" THEN capabilities[i]
                                             ELSE k * capabilities[i]],
                         counts)]
    /\ taskId \in 0..MaxTasks
    /\ clientServers = <<>>
    /\ algServers = [o \in Objects |-> <<>>]
    /\ alg = [o \in Objects |-> NoObject]
    /\ pc = "idle"
    /\ active = 0
    /\ taskLoads = <<>>
    /\ iteration = 0
    /\ phase = "none"
    /\ pheromones = <<>>
    /\ ub = {}
    /\ pre = NoPre
    /\ throughputs = [p \in Policies |-> <<>>]
    /\ main = MainOff
    /\ draw = <<>>

\* main: throughputs[...] = balancer.getThroughput(simulatedTime)
GetThroughput ==
    /\ pc = "idle"
    /\ HasCapability(variant)
    /\ \E p \in Policies :
         /\ throughputs[p] = <<>>
         /\ throughputs' = [throughputs EXCEPT ![p] =
                               getThroughput(variant, lbServers[p], taskId)]
    /\ UNCHANGED <<variant, draw, lbServers, clientServers, algServers, alg, pc,
                   active, taskLoads, taskId, iteration, phase, pheromones,
                   ub, pre, main>>

NextThroughput == GetThroughput

SpecThroughput == InitThroughput /\ [][NextThroughput]_vars

\* ------------------------------------------------------------------ main
\* The order in which main measures the policies.
PolicyOrder == <<"Random", "RoundRobin", "WeightedRoundRobin",
                 "ActiveClustering", "AntColonyOptimization">>

MainPolicy == PolicyOrder[main.k + 1]

\* simulatedTime += 1.0 without the increment.
AdvanceTimeStuck(simulatedTime) == simulatedTime

\* simulatedTime += 1.0
AdvanceTime(simulatedTime) == simulatedTime + 1

\* The simulated-time main feeds the batch task by task:
\* for (const auto& taskLoad : taskLoads).  The two other mains have no loop.
MoreTasks(v, batch, fed) == v = "simulated" /\ fed < Len(batch)

\* The argument of the next call of run: the whole batch, or {taskLoad}.
RunTasks(v, batch, fed) ==
    IF v = "simulated" THEN <<batch[fed + 1]>> ELSE batch

\* The simulatedTime argument of getThroughput: NUM_TASKS[i] in the queue
\* variant, the local simulatedTime in the simulated variant.
ThroughputTime ==
    IF variant = "queue" THEN Len(main.taskLoads) ELSE main.simulatedTime

\* main up to the first measured run: NUM_SERVERS servers (a positive
\* constant), capabilities in [MIN_CAPABILITY, MAX_CAPABILITY], and a batch
\* of NUM_TASKS[i] tasks (positive constants).
InitMain ==
    /\ variant \in Variants
    /\ \E S \in 1..MaxServers :
         \E capabilities \in CapabilityVectors(variant, S) :
            lbServers = [p \in Policies |-> NewPool(variant, capabilities)]
    /\ \E batch \in TaskSeqs(MaxAnts) \ {<<>>} :
         main = [pc |-> "run", k |-> 0, taskLoads |-> batch, fed |-> 0,
                 simulatedTime |-> 0, calls |-> 0]
    /\ clientServers = <<>>
    /\ algServers = [o \in Objects |-> <<>>]
    /\ alg = [o \in Objects |-> NoObject]
    /\ pc = "idle"
    /\ active = 0
    /\ taskLoads = <<>>
    /\ taskId = 0
    /\ iteration = 0
    /\ phase = "none"
    /\ pheromones = <<>>
    /\ ub = {}
    /\ pre = NoPre
    /\ throughputs = [p \in Policies |-> <<>>]
    /\ draw = <<>>

\* main calls balancer.run(...).
MainRun ==
    /\ pc = "idle"
    /\ main.pc = "run"
    /\ RunCall(MainPolicy, RunTasks(variant, main.taskLoads, main.fed))
    /\ main' = [main EXCEPT !.pc = "in_run", !.calls = @ + 1]

\* run has returned: the simulated-time main advances its clock and goes on
\* with the next task, if any.
MainAfterRun ==
    /\ pc = "idle"
    /\ main.pc = "in_run"
    /\ LET fed == main.fed + 1
       IN main' = [main EXCEPT
                     !.fed = fed,
                     !.simulatedTime = IF variant = "simulated"
                                       THEN AdvanceTime(@) ELSE @,
                     !.pc = IF MoreTasks(variant, main.taskLoads, fed)
                            THEN "run" ELSE "read"]
    /\ UNCHANGED <<variant, draw, lbServers, clientServers, algServers, alg, pc,
                   active, taskLoads, taskId, iteration, phase, pheromones,
                   ub, pre, throughputs>>

\* The measured run of one policy is over: main stores the duration and, in
\* the variants that have it, the throughput, then turns to the next policy.
MainRead ==
    /\ pc = "idle"
    /\ main.pc = "read"
    /\ throughputs' =
          IF HasCapability(variant)
          THEN [throughputs EXCEPT ![MainPolicy] =
                  getThroughput(variant, lbServers[MainPolicy], ThroughputTime)]
          ELSE throughputs
    /\ main' = [main EXCEPT
                  !.k = @ + 1, !.fed = 0, !.simulatedTime = 0, !.calls = 0,
                  !.pc = IF main.k + 1 < Len(PolicyOrder) THEN "run" ELSE "done"]
    /\ UNCHANGED <<variant, draw, lbServers, clientServers, algServers, alg, pc,
                   active, taskLoads, taskId, iteration, phase, pheromones,
                   ub, pre>>

NextMain ==
    \/ MainRun
    \/ MainAfterRun
    \/ MainRead
    \/ RandomStep
    \/ RoundRobinStep
    \/ WeightedRoundRobinStep
    \/ ActiveClusteringStep
    \/ ACOMove
    \/ ACOUpdate
    \/ ACOReset
    \/ ACOPlaceholderStep
    \/ Return

SpecMain == InitMain /\ [][NextMain]_vars

Next ==
    \/ Construct
    \/ Run
    \/ BalanceLoad
    \/ RandomStep
    \/ RoundRobinStep
    \/ WeightedRoundRobinStep
    \/ ActiveClusteringStep
    \/ ACOMove
    \/ ACOUpdate
    \/ ACOReset
    \/ ACOPlaceholderStep
    \/ Return

Spec == Init /\ [][Next]_vars

\* ------------------------------------------------------------- properties
FourPolicies == {"Random", "RoundRobin", "WeightedRoundRobin", "ActiveClustering"}

\* The call began on a pool whose servers all had load 0.
FromZero == \A i \in DOMAIN pre.loads : pre.loads[i] = 0

\* The servers of the variant accumulate the task weights in a number.
NumericLoad == variant # "queue"

\* What getLoad reports for a server that received exactly these tasks.
PlacedLoad(v, tasks) == IF v = "queue" THEN Len(tasks) ELSE SumSeq(tasks)

\* The tasks of the call assigned so far.
AssignedTasks == SubSeq(taskLoads, 1, taskId)

\* The lowest-id server among those of minimum load.
LowestMin(v, pool) ==
    CHOOSE i \in DOMAIN pool :
        /\ \A j \in DOMAIN pool : getLoad(v, pool[i]) <= getLoad(v, pool[j])
        /\ \A j \in DOMAIN pool : j < i => getLoad(v, pool[j]) > getLoad(v, pool[i])

\* The tasks at positions p < n of the call with p mod S = i, in order.
RECURSIVE ReceivedBy(_, _, _)
ReceivedBy(i, S, n) ==
    IF n = 0 THEN <<>>
    ELSE IF (n - 1) % S = i
         THEN Append(ReceivedBy(i, S, n - 1), taskLoads[n])
         ELSE ReceivedBy(i, S, n - 1)

C2_SingleServerTotal ==
    (/\ CallDone
     /\ size(CurServers) = 1
     /\ FromZero)
        => TotalLoad(variant, CurServers) = PlacedLoad(variant, taskLoads)

\* C3: Round-Robin on a fresh instance with S >= 1 servers: after p tasks the
\* cursor is p mod S and server i has received exactly the tasks at positions
\* i, i+S, i+2S, ... below p, so the loads are a function of the task list.
C3_RoundRobinPositions ==
    (/\ Running("RoundRobin")
     /\ size(CurServers) >= 1
     /\ Cur.handed = numTasks)
        => /\ Cur.currentServer = taskId % size(CurServers)
           /\ \A i \in DOMAIN CurServers :
                LET got == ReceivedBy(i, size(CurServers), taskId)
                IN  IF variant = "queue"
                    THEN /\ Len(CurServers[i].loads) = pre.loads[i] + Len(got)
                         /\ SubSeq(CurServers[i].loads, pre.loads[i] + 1,
                                   Len(CurServers[i].loads)) = got
                    ELSE getLoad(variant, CurServers[i])
                            = pre.loads[i] + SumSeq(got)

\* A fresh Round-Robin instance on two servers has placed three tasks: the
\* cursor has wrapped, server 0 holds tasks 0 and 2, server 1 holds task 1.
C3_Witness ==
    /\ Running("RoundRobin")
    /\ NumericLoad
    /\ FromZero
    /\ Cur.handed = numTasks
    /\ size(CurServers) = 2
    /\ numTasks = 3
    /\ taskId = 3
    /\ getLoad(variant, CurServers[0]) = taskLoads[1] + taskLoads[3]
    /\ getLoad(variant, CurServers[1]) = taskLoads[2]
    /\ Cur.currentServer = 1

\* C4: Active-Clustering: every task goes to the server that, at the moment
\* of the assignment, has a load <= the load of every server while every
\* server of lower index has a strictly greater load; no other server changes.
C4_ActiveClusteringMin ==
    [][(/\ Running("ActiveClustering")
        /\ size(CurServers) >= 1
        /\ taskId' = taskId + 1)
          => CurServers' =
                [CurServers EXCEPT ![LowestMin(variant, CurServers)] =
                                        addLoad(variant, @, taskLoad)]]_vars

\* Active-Clustering on two servers from load 0 has placed two tasks: the first
\* went to server 0 on the tie, the second to server 1.
C4_Witness ==
    /\ Running("ActiveClustering")
    /\ FromZero
    /\ size(CurServers) = 2
    /\ taskId = 2
    /\ getLoad(variant, CurServers[0]) = PlacedLoad(variant, <<taskLoads[1]>>)
    /\ getLoad(variant, CurServers[1]) > 0

\* The tasks the policy object o has assigned since its construction.
AssignedEver(o) ==
    IF pc = "running" /\ active = o
    THEN alg[o].handed - (numTasks - taskId)
    ELSE alg[o].handed

\* C5: Weighted-Round-Robin: the cursor is 0 until the first assignment and
\* after every assignment it is the lowest-id server of minimum load; every
\* task is added to the server the cursor designated before the task.
C5_WeightedRoundRobinCursor ==
    /\ [](\A o \in Objects :
            (/\ alg[o].type = "WeightedRoundRobin"
             /\ pc # "crashed"
             /\ size(Deref(alg[o].servers)) >= 1)
               => alg[o].currentServer =
                     IF AssignedEver(o) = 0 THEN 0
                     ELSE LowestMin(variant, Deref(alg[o].servers)))
    /\ [][(/\ Running("WeightedRoundRobin")
           /\ size(CurServers) >= 1
           /\ taskId' = taskId + 1)
             => CurServers' =
                   [CurServers EXCEPT ![Cur.currentServer] =
                                           addLoad(variant, @, taskLoad)]]_vars

\* Weighted-Round-Robin on two servers whose capabilities differ has placed
\* two tasks from load 0: the loads are tied, the cursor is on server 0, and
\* the server of higher capability is server 1.
C5_Witness ==
    /\ Running("WeightedRoundRobin")
    /\ HasCapability(variant)
    /\ FromZero
    /\ size(CurServers) = 2
    /\ taskId = 2
    /\ getLoad(variant, CurServers[0]) = getLoad(variant, CurServers[1])
    /\ getCapability(CurServers[1]) > getCapability(CurServers[0])
    /\ Cur.currentServer = 0

\* C6: Ant-Colony-Optimization skips the reset of the server loads at the end
\* of the last iteration, so when balanceLoad returns, the servers, which
\* started at load 0, hold the assignments of the final iteration: their
\* total load is what the tasks of the call amount to.
C6_FinalAssignmentsPersist ==
    (/\ CallDone
     /\ Cur.type = "AntColonyOptimization"
     /\ size(CurServers) >= 1
     /\ numTasks >= 1
     /\ FromZero)
        => TotalLoad(variant, CurServers) = PlacedLoad(variant, taskLoads)

\* C7: while the balanceLoad call of one policy object runs, every addLoad and
\* every reset it performs lands in that object's own copy of the pool: the
\* pools of the LoadBalancers, the client's pool and the copy held by the
\* other policy object stay as they were.
C7_PolicyIsolation ==
    [][pc = "running"
         => /\ lbServers' = lbServers
            /\ clientServers' = clientServers
            /\ \A o \in Objects \ {active} : algServers'[o] = algServers[o]]_vars

\* A policy object made by LoadBalancer::run has added load to its copy while
\* the LoadBalancer's pool is still at load 0 and a second policy object,
\* built from a loaded pool, still holds that load.
C7_Witness ==
    /\ pc = "running"
    /\ active = 0
    /\ size(CurServers) = 2
    /\ TotalLoad(variant, algServers[0]) > 0
    /\ TotalLoad(variant, lbServers[Cur.type]) = 0
    /\ alg[1].type \notin {"none", Cur.type}
    /\ TotalLoad(variant, algServers[1]) > 0
    /\ TotalLoad(variant, clientServers) > 0

\* C8: a recorded throughput times the simulated time times the sum of the
\* capabilities is the sum of the loads; and of two pools with the same loads,
\* read at the same simulated time, where every capability of the second is k
\* times that of the first, the second reports 1/k of the first.
C8_Throughput ==
    \A p \in Policies :
       (/\ throughputs[p] # <<>>
        /\ taskId > 0
        /\ size(lbServers[p]) >= 1)
          => /\ RMul(RMul(throughputs[p], RInt(taskId)),
                     RInt(SumCapabilities(lbServers[p], 0)))
                   = RInt(TotalLoad(variant, lbServers[p]))
             /\ \A q \in Policies : \A k \in 1..MaxScale :
                  (/\ throughputs[q] # <<>>
                   /\ DOMAIN lbServers[q] = DOMAIN lbServers[p]
                   /\ \A i \in DOMAIN lbServers[p] :
                        /\ getLoad(variant, lbServers[q][i])
                              = getLoad(variant, lbServers[p][i])
                        /\ getCapability(lbServers[q][i])
                              = k * getCapability(lbServers[p][i]))
                     => RMul(throughputs[q], RInt(k)) = throughputs[p]

\* Two loaded pools of two servers, the capabilities of the second twice those
\* of the first, have both been read at simulated time 2 and the readings
\* differ.
C8_Witness ==
    /\ throughputs["Random"] # <<>>
    /\ throughputs["RoundRobin"] # <<>>
    /\ taskId = 2
    /\ size(lbServers["Random"]) = 2
    /\ TotalLoad(variant, lbServers["Random"]) = 3
    /\ \A i \in DOMAIN lbServers["Random"] :
          getCapability(lbServers["RoundRobin"][i])
             = 2 * getCapability(lbServers["Random"][i])
    /\ RMul(throughputs["RoundRobin"], RInt(2)) = throughputs["Random"]
    /\ throughputs["RoundRobin"] # throughputs["Random"]

\* C9: a balanceLoad call with no tasks returns with the load of every bound
\* server and the cursor as they were when the call began, whatever the loads
\* were, for each of the five policies.
C9_EmptySequenceNoOp ==
    (/\ CallDone
     /\ numTasks = 0)
        => /\ Loads(variant, CurServers) = pre.loads
           /\ Cur.currentServer = pre.currentServer

\* C10: a balanceLoad call with tasks on an empty pool never ends, for any of
\* the five policies, without having reached an invalid operation: a server
\* index outside the pool or a modulo or division by the zero server count.
C10_EmptyPoolInvalid ==
    (/\ pc \in {"running", "crashed"}
     /\ size(CurServers) = 0
     /\ numTasks > 0
     /\ (pc = "crashed" \/ CallDone))
        => ub # {}

\* C11: in the drivers that read a throughput, getThroughput is called with
\* simulatedTime equal to the number of tasks of the batch, which is positive,
\* and on a pool whose capabilities are all in [MIN_CAPABILITY,
\* MAX_CAPABILITY], so of positive sum; every throughput stored is a quotient
\* by a non-zero divisor.
C11_ThroughputDivisionGuarded ==
    /\ (main.pc = "read" /\ HasCapability(variant))
          => /\ ThroughputTime = Len(main.taskLoads)
             /\ ThroughputTime > 0
             /\ \A i \in DOMAIN lbServers[MainPolicy] :
                   /\ getCapability(lbServers[MainPolicy][i]) >= MIN_CAPABILITY
                   /\ getCapability(lbServers[MainPolicy][i]) <= MAX_CAPABILITY
             /\ SumCapabilities(lbServers[MainPolicy], 0) > 0
    /\ \A p \in Policies : throughputs[p] # <<>> => throughputs[p][2] # 0

\* The simulated-time main has fed a batch of two tasks to Round-Robin, its
\* clock stands at 2, and it has stored the throughput of Random.
C11_Witness ==
    /\ variant = "simulated"
    /\ main.pc = "read"
    /\ MainPolicy = "RoundRobin"
    /\ Len(main.taskLoads) = 2
    /\ main.simulatedTime = 2
    /\ throughputs["Random"] # <<>>
    /\ throughputs["Random"][2] # 0

\* ---------------------------------------------------------- a Server alone
\* One Server object under the calls of its public interface: clientServers
\* holds it (at its id), taskLoads the amounts added since its last reset.
InitServer ==
    /\ variant \in Variants
    /\ \E id \in 0..MaxServers :
       \E capability \in {MIN_CAPABILITY, MIN_CAPABILITY + 1, MAX_CAPABILITY} :
          /\ HasCapability(variant) \/ capability = MIN_CAPABILITY
          /\ clientServers = [i \in {id} |-> Server(variant, id, capability)]
    /\ lbServers = [p \in Policies |-> <<>>]
    /\ algServers = [o \in Objects |-> <<>>]
    /\ alg = [o \in Objects |-> NoObject]
    /\ pc = "idle"
    /\ active = 0
    /\ taskLoads = <<>>
    /\ taskId = 0
    /\ iteration = 0
    /\ phase = "none"
    /\ pheromones = <<>>
    /\ ub = {}
    /\ pre = NoPre
    /\ throughputs = [p \in Policies |-> <<>>]
    /\ main = MainOff
    /\ draw = <<>>

\* server.addLoad(amount) with a positive amount.
ServerAddLoad ==
    /\ Len(taskLoads) < MaxTasks
    /\ \E amount \in TaskWeights :
         /\ clientServers' = [i \in DOMAIN clientServers |->
                                 addLoad(variant, clientServers[i], amount)]
         /\ taskLoads' = Append(taskLoads, amount)
    /\ UNCHANGED <<variant, draw, lbServers, algServers, alg, pc, active, taskId,
                   iteration, phase, pheromones, ub, pre, throughputs, main>>

\* server.resetLoad() (reset() in the queue variant).
ServerReset ==
    /\ clientServers' = [i \in DOMAIN clientServers |->
                            resetLoad(variant, clientServers[i])]
    /\ taskLoads' = <<>>
    /\ UNCHANGED <<variant, draw, lbServers, algServers, alg, pc, active, taskId,
                   iteration, phase, pheromones, ub, pre, throughputs, main>>

ServerNext == ServerAddLoad \/ ServerReset

SpecServer == InitServer /\ [][ServerNext]_vars

C13_RoundRobinCursorPersists ==
    /\ [](\A o \in Objects :
            (/\ alg[o].type = "RoundRobin"
             /\ pc # "crashed"
             /\ size(Deref(alg[o].servers)) >= 1)
               => alg[o].currentServer
                     = AssignedEver(o) % size(Deref(alg[o].servers)))
    /\ [][(/\ Running("RoundRobin")
           /\ size(CurServers) >= 1
           /\ taskId' = taskId + 1)
             => CurServers' =
                   [CurServers EXCEPT
                      ![AssignedEver(active) % size(CurServers)] =
                          addLoad(variant, @, taskLoad)]]_vars

\* A Round-Robin object on two servers that was handed one task by an earlier
\* call is inside a second call: the cursor began at 1 and the first task of
\* this call went to server 1, server 0 having received nothing.
C13_Witness ==
    /\ Running("RoundRobin")
    /\ active = 1
    /\ size(CurServers) = 2
    /\ Cur.handed = numTasks + 1
    /\ pre.currentServer = 1
    /\ taskId = 1
    /\ getLoad(variant, CurServers[1]) > pre.loads[1]
    /\ getLoad(variant, CurServers[0]) = pre.loads[0]
    /\ Cur.currentServer = 0

\* C14: in each of the mains, when the measured run of a policy on a batch is
\* over, exactly one balanceLoad call has been made for it, and every
\* balanceLoad call runs on the policy object constructed for that run, which
\* has been handed no task before.
C14_OneCallPerMeasuredRun ==
    /\ main.pc = "read" => main.calls = 1
    /\ (pc = "running" /\ main.pc # "off")
          => /\ active = 0
             /\ Cur.handed = numTasks
             /\ alg[1].type = "none"

\* The sum of the loads recorded at the entry of the call.
RECURSIVE SumPreLoads(_)
SumPreLoads(i) ==
    IF i \notin DOMAIN pre.loads THEN 0 ELSE pre.loads[i] + SumPreLoads(i + 1)

\* The total load the servers of the running ACO call had when the current
\* iteration began: the load at entry in the first iteration, 0 afterwards.
IterationBase == IF iteration = 0 THEN SumPreLoads(0) ELSE 0

C16_DepositEveryPair ==
    [][(/\ Running("AntColonyOptimization")
        /\ variant # "simulated"
        /\ size(CurServers) >= 1
        /\ phase # "reset"
        /\ phase' = "reset")
          => /\ DOMAIN pheromones' = 0..(numTasks - 1)
             /\ \A t \in DOMAIN pheromones' :
                  /\ DOMAIN pheromones'[t] = DOMAIN CurServers
                  /\ \A s \in DOMAIN CurServers :
                       RSub(pheromones'[t][s],
                            RMul(pheromones[t][s], RSub(RInt(1), rho)))
                         = RDiv(Q, RInt(getLoad(variant, CurServers[s])
                                        + taskLoads[t + 1]))]_vars

\* The only task of an iteration, of weight 1, was placed on server 0; the
\* update has run: the entry of server 1, which received nothing, is
\* 1/2 + 1/(0 + 1), that of server 0 is 1/2 + 1/(1 + 1).
C16_Witness ==
    /\ Running("AntColonyOptimization")
    /\ variant = "queue"
    /\ phase = "reset"
    /\ iteration = 0
    /\ taskLoads = <<1>>
    /\ size(CurServers) = 2
    /\ getLoad(variant, CurServers[0]) = 1
    /\ getLoad(variant, CurServers[1]) = 0
    /\ pheromones[0][1] = <<3, 2>>
    /\ pheromones[0][0] = <<1, 1>>

PheromoneValues == {<<1, 2>>, <<1, 1>>, <<3, 2>>}

\* The draws applied to a wheel: inside every server's interval, on every
\* boundary, and one beyond totalProbability (a cumulative sum that rounding
\* left short of the draw).
SelectionsWide(cumulative) ==
    Selections(cumulative)
       \cup {cumulative[n] : n \in DOMAIN cumulative}
       \cup {RAdd(cumulative[n], RInt(1)) : n \in {Len(cumulative)}}

\* selectNextServer as a function of its inputs: an Ant-Colony-Optimization
\* object on a pool of drawn loads is inside balanceLoad with one task of a
\* drawn weight and a drawn pheromone row.
InitSelect ==
    /\ variant \in {"wallclock", "queue"}
    /\ \E S \in 1..MaxServers :
       \E counts \in [0..(S - 1) -> 0..MaxAnts] :
       \E row \in [0..(S - 1) -> PheromoneValues] :
       \E w \in TaskWeights :
          /\ algServers =
                [o \in Objects |->
                    IF o = 1
                    THEN LoadedPool(variant,
                                    [i \in 0..(S - 1) |-> MIN_CAPABILITY], counts)
                    ELSE <<>>]
          /\ clientServers =
                LoadedPool(variant, [i \in 0..(S - 1) |-> MIN_CAPABILITY], counts)
          /\ pheromones = [t \in {0} |-> row]
          /\ taskLoads = <<w>>
          /\ pre = [loads |-> [i \in 0..(S - 1) |-> counts[i]], currentServer |-> 0]
    /\ lbServers = [p \in Policies |-> <<>>]
    /\ alg = [o \in Objects |->
                IF o = 1
                THEN [type |-> "AntColonyOptimization", servers |-> <<"alg", 1>>,
                      currentServer |-> 0, handed |-> 1]
                ELSE NoObject]
    /\ pc = "running"
    /\ active = 1
    /\ taskId = 0
    /\ iteration = 0
    /\ phase = "move"
    /\ ub = {}
    /\ throughputs = [p \in Policies |-> <<>>]
    /\ main = MainOff
    /\ draw = <<>>

\* One call of selectNextServer(taskId, pheromones, taskLoads, alpha, beta)
\* in which dis(gen) yields selection; the call writes to nothing but its
\* locals.
Select ==
    /\ Running("AntColonyOptimization")
    /\ LET probabilities ==
              Probabilities(variant, CurServers, pheromones[taskId],
                            taskLoads[taskId + 1], size(CurServers) - 1)
           cumulative == Cumulative(probabilities, Len(probabilities))
       IN \E selection \in SelectionsWide(cumulative) :
             draw' = [selection |-> selection,
                      server |-> selectNextServerAt(variant, CurServers,
                                    pheromones, taskLoads, taskId, selection)]
    /\ UNCHANGED <<variant, lbServers, clientServers, algServers, alg, pc,
                   active, taskLoads, taskId, iteration, phase, pheromones,
                   ub, pre, throughputs, main>>

NextSelect == Select

SpecSelect == InitSelect /\ [][NextSelect]_vars

\* The cumulative probability of server s for the task of the running call:
\* the sum over the servers 0..s of pheromone^alpha / (load + weight)^beta.
RECURSIVE CumulativeUpTo(_)
CumulativeUpTo(s) ==
    IF s < 0 THEN RInt(0)
    ELSE RAdd(CumulativeUpTo(s - 1),
              RDiv(Pow(pheromones[taskId][s], alpha),
                   Pow(RInt(getLoad(variant, CurServers[s])
                            + taskLoads[taskId + 1]), beta)))

\* C18: for S >= 1 servers selectNextServer returns the smallest server index
\* whose cumulative probability is >= the draw, and S - 1 when no index
\* qualifies, so always an index of the pool; the call changes no server and
\* no pheromone entry.
C18_RouletteWheel ==
    /\ [](draw # <<>> =>
            LET qualifying == {s \in DOMAIN CurServers :
                                  RLeq(draw.selection, CumulativeUpTo(s))}
            IN /\ draw.server \in DOMAIN CurServers
               /\ qualifying # {} =>
                     /\ draw.server \in qualifying
                     /\ \A s \in qualifying : draw.server <= s
               /\ qualifying = {} => draw.server = size(CurServers) - 1)
    /\ [][draw' # draw =>
            /\ algServers' = algServers
            /\ pheromones' = pheromones]_vars

\* On two servers the draw fell on the boundary of server 0's interval and
\* server 0 was returned although server 1 qualifies too.
C18_Witness ==
    /\ draw # <<>>
    /\ size(CurServers) = 2
    /\ draw.selection = CumulativeUpTo(0)
    /\ draw.server = 0
    /\ RLeq(draw.selection, CumulativeUpTo(1))
    /\ getLoad(variant, CurServers[1]) > 0

\* C19: whenever balanceLoad of an iteration-based Ant-Colony-Optimization
\* object is entered, on a new object or on one that has run before, the
\* pheromone matrix of the call has one entry per (task, server) pair and
\* every entry is 1.
C19_PheromonesRebuilt ==
    [][(/\ pc = "idle"
        /\ pc' = "running"
        /\ alg'[active'].type = "AntColonyOptimization"
        /\ variant # "simulated")
          => /\ DOMAIN pheromones' = 0..(Len(taskLoads') - 1)
             /\ \A t \in DOMAIN pheromones' :
                  /\ DOMAIN pheromones'[t] = DOMAIN CurServers'
                  /\ \A s \in DOMAIN pheromones'[t] :
                        pheromones'[t][s] = <<1, 1>>]_vars

\* An Ant-Colony-Optimization object that ran a call on one task before has
\* entered a second call with two tasks on two servers: the matrix is 2 x 2
\* and all 1.
C19_Witness ==
    /\ Running("AntColonyOptimization")
    /\ variant # "simulated"
    /\ active = 1
    /\ Cur.handed = 3
    /\ numTasks = 2
    /\ size(CurServers) = 2
    /\ iteration = 0
    /\ taskId = 0
    /\ phase # "reset"
    /\ pheromones = [t \in 0..1 |-> [s \in 0..1 |-> <<1, 1>>]]

\* ------------------------------------------------------ evaporation alone
\* The evaporation loop of updatePheromones applied round after round to the
\* matrix a balanceLoad call starts with, no deposit in between; iteration
\* counts the rounds.
InitEvaporate ==
    /\ variant \in {"wallclock", "queue"}
    /\ \E S \in 1..MaxServers :
       \E tasks \in TaskSeqs(MaxAnts) \ {<<>>} :
          /\ algServers =
                [o \in Objects |->
                    IF o = 1
                    THEN NewPool(variant, [i \in 0..(S - 1) |-> MIN_CAPABILITY])
                    ELSE <<>>]
          /\ clientServers = NewPool(variant, [i \in 0..(S - 1) |-> MIN_CAPABILITY])
          /\ taskLoads = tasks
          /\ pheromones = InitialPheromones(Len(tasks), S)
          /\ pre = [loads |-> [i \in 0..(S - 1) |-> 0], currentServer |-> 0]
    /\ lbServers = [p \in Policies |-> <<>>]
    /\ alg = [o \in Objects |->
                IF o = 1
                THEN [type |-> "AntColonyOptimization", servers |-> <<"alg", 1>>,
                      currentServer |-> 0, handed |-> Len(taskLoads)]
                ELSE NoObject]
    /\ pc = "running"
    /\ active = 1
    /\ taskId = 0
    /\ iteration = 0
    /\ phase = "update"
    /\ ub = {}
    /\ throughputs = [p \in Policies |-> <<>>]
    /\ main = MainOff
    /\ draw = <<>>

\* updatePheromones, "Evaporate pheromones": one run of the double loop.
EvaporateRound ==
    /\ Running("AntColonyOptimization")
    /\ iteration < MaxRounds
    /\ pheromones' = Evaporate(pheromones)
    /\ iteration' = iteration + 1
    /\ UNCHANGED <<variant, lbServers, clientServers, algServers, alg, pc,
                   active, taskLoads, taskId, phase, ub, pre, throughputs,
                   main, draw>>

NextEvaporate == EvaporateRound

SpecEvaporate == InitEvaporate /\ [][NextEvaporate]_vars

\* C20: after k evaporation rounds and no deposit, every entry of a matrix
\* that started at 1 is 0.5^k, that is 1 / 2^k.
C20_EvaporationHalves ==
    \A t \in DOMAIN pheromones : \A s \in DOMAIN pheromones[t] :
       pheromones[t][s] = <<1, 2^iteration>>

\* Three rounds have run on a matrix of two tasks and two servers: every
\* entry is 1/8.
C20_Witness ==
    /\ iteration = 3
    /\ numTasks = 2
    /\ size(CurServers) = 2
    /\ DOMAIN pheromones = 0..1
    /\ \A t \in 0..1 : \A s \in 0..1 : pheromones[t][s] = <<1, 8>>

\* The LoadBalancer reports total load 0 and, where its pool has a server
\* (the throughput is a quotient by the capability sum), throughput 0 at
\* every simulated time t > 0.
ReportsNothing(p) ==
    /\ getTotalLoad(variant, lbServers[p]) = 0
    /\ (HasCapability(variant) /\ size(lbServers[p]) >= 1)
          => \A t \in 1..MaxTasks :
                getThroughput(variant, lbServers[p], t) = RInt(0)

\* C21: no step of LoadBalancer::run, nor of anything else, changes a
\* LoadBalancer's own servers, whatever the policy and the task lists of the
\* runs made so far; so when the balanceLoad of a run is about to return the
\* LoadBalancer that ran it reports total load 0 and throughput 0, and
\* between the calls every LoadBalancer does.
C21_RunLeavesOwnServers ==
    /\ [][lbServers' = lbServers]_vars
    /\ []((CallDone /\ active = 0) => ReportsNothing(Cur.type))
    /\ [](pc = "idle" => \A p \in Policies : ReportsNothing(p))

\* The policy object of a run has placed its three tasks on its two servers:
\* its copy would report a throughput above 0 while the LoadBalancer's pool
\* reports total load 0 and throughput 0.
C21_Witness ==
    /\ pc = "running"
    /\ active = 0
    /\ HasCapability(variant)
    /\ CallDone
    /\ numTasks = 3
    /\ size(CurServers) = 2
    /\ getTotalLoad(variant, CurServers) = 3
    /\ getThroughput(variant, CurServers, 3) # RInt(0)
    /\ getTotalLoad(variant, lbServers[Cur.type]) = 0
    /\ getThroughput(variant, lbServers[Cur.type], 3) = RInt(0)

\* ------------------------ Weighted-Round-Robin beside Active-Clustering
\* Two policy objects constructed on the same vector, whose servers hold
\* drawn loads: object 0 is an ActiveClusteringLoadBalancing, object 1 a
\* WeightedRoundRobinLoadBalancing; both are inside balanceLoad with the
\* same task list, taskId tasks into it.
InitPair ==
    /\ variant \in Variants
    /\ taskLoads \in TaskSeqs(MaxTasks)
    /\ \E S \in 1..MaxServers :
       \E capabilities \in CapabilityVectors(variant, S) :
       \E counts \in [0..(S - 1) -> 0..MaxAnts] :
          LET pool == LoadedPool(variant, capabilities, counts)
          IN /\ clientServers = pool
             /\ algServers = [o \in Objects |-> pool]
             /\ pre = [loads |-> Loads(variant, pool), currentServer |-> 0]
    /\ alg = [o \in Objects |->
                [type |-> IF o = 0 THEN "ActiveClustering"
                                   ELSE "WeightedRoundRobin",
                 servers |-> Bind(o, <<"client", 0>>),
                 currentServer |-> 0, handed |-> Len(taskLoads)]]
    /\ lbServers = [p \in Policies |-> <<>>]
    /\ pc = "running"
    /\ active = 1
    /\ taskId = 0
    /\ iteration = 0
    /\ phase = "none"
    /\ pheromones = <<>>
    /\ ub = {}
    /\ throughputs = [p \in Policies |-> <<>>]
    /\ main = MainOff
    /\ draw = <<>>

\* One pass of the loop of each balanceLoad on the task at taskId:
\* Weighted-Round-Robin adds it to servers[currentServer] and then runs
\* updateCurrentServer, Active-Clustering scans for the minimum and adds it
\* to servers[minLoadServer].
PairStep ==
    /\ pc = "running"
    /\ taskId < numTasks
    /\ LET currentServer == alg[1].currentServer
           minLoadServer == MinLoadServer(variant, algServers[0])
           weighted == [algServers[1] EXCEPT ![currentServer] =
                           addLoad(variant, @, taskLoad)]
           clustered == [algServers[0] EXCEPT ![minLoadServer] =
                            addLoad(variant, @, taskLoad)]
       IN /\ algServers' = [o \in Objects |->
                               IF o = 0 THEN clustered ELSE weighted]
          /\ alg' = [alg EXCEPT ![1].currentServer =
                                   updateCurrentServer(variant, weighted)]
    /\ taskId' = taskId + 1
    /\ UNCHANGED <<variant, draw, throughputs, main, lbServers, clientServers,
                   pc, active, taskLoads, iteration, phase, pheromones, ub, pre>>

NextPair == PairStep

SpecPair == InitPair /\ [][NextPair]_vars

\* The pool the two objects were constructed on has no server with a load
\* below that of server 0.
ServerZeroLowest == \A i \in DOMAIN pre.loads : pre.loads[i] >= pre.loads[0]

\* C22: started on the same pool with all loads 0, and more generally on any
\* pool none of whose servers has a load below that of server 0,
\* Weighted-Round-Robin and Active-Clustering put every task of every task
\* list on the same server, so their per-server loads are identical after
\* every task and at the end.
C22_WeightedEqualsClustering ==
    /\ [](ServerZeroLowest =>
            Loads(variant, algServers[1]) = Loads(variant, algServers[0]))
    /\ [][(ServerZeroLowest /\ taskId' = taskId + 1)
            => \E s \in DOMAIN algServers[0] :
                  /\ algServers'[0] = [algServers[0] EXCEPT ![s] =
                                          addLoad(variant, @, taskLoad)]
                  /\ algServers'[1] = [algServers[1] EXCEPT ![s] =
                                          addLoad(variant, @, taskLoad)]]_vars

\* Both policies have placed three tasks on two servers that started at load
\* 0: the per-server loads agree, both servers hold load, and the cursor of
\* Weighted-Round-Robin is where Active-Clustering would put a next task.
C22_Witness ==
    /\ FromZero
    /\ alg[0].type = "ActiveClustering"
    /\ alg[1].type = "WeightedRoundRobin"
    /\ size(algServers[1]) = 2
    /\ taskId = 3
    /\ Loads(variant, algServers[1]) = Loads(variant, algServers[0])
    /\ \A i \in DOMAIN algServers[1] : getLoad(variant, algServers[1][i]) > 0
    /\ alg[1].currentServer = MinLoadServer(variant, algServers[0])

\* The largest weight of a task list (0 for the empty list).
RECURSIVE MaxWeight(_)
MaxWeight(s) ==
    IF s = <<>> THEN 0
    ELSE LET rest == MaxWeight(Tail(s))
         IN IF s[1] > rest THEN s[1] ELSE rest

\* C23: Active-Clustering and Weighted-Round-Robin started from all loads
\* 0: after every assignment the maximum server load exceeds the minimum by
\* at most W, the largest weight among the tasks assigned so far; and when
\* those tasks all have the same weight, the loads are all equal after every
\* S-th assignment.  Stated for the servers that accumulate the weights in a
\* number.
C23_SpreadBounded ==
    (/\ pc = "running"
     /\ Cur.type \in {"ActiveClustering", "WeightedRoundRobin"}
     /\ size(CurServers) >= 1
     /\ FromZero
     /\ NumericLoad)
        => /\ \A i, j \in DOMAIN CurServers :
                 getLoad(variant, CurServers[i]) - getLoad(variant, CurServers[j])
                    <= MaxWeight(AssignedTasks)
           /\ (/\ \A m, n \in DOMAIN AssignedTasks :
                     AssignedTasks[m] = AssignedTasks[n]
               /\ taskId % size(CurServers) = 0)
                 => \A i, j \in DOMAIN CurServers :
                       getLoad(variant, CurServers[i])
                          = getLoad(variant, CurServers[j])

\* Active-Clustering has placed three tasks of weight 2 on two servers from
\* load 0: the loads are 4 and 2, apart by exactly the weight; after the second
\* task they were equal.
C23_Witness ==
    /\ Running("ActiveClustering")
    /\ NumericLoad
    /\ FromZero
    /\ size(CurServers) = 2
    /\ taskLoads = <<2, 2, 2>>
    /\ taskId = 3
    /\ getLoad(variant, CurServers[0]) = 4
    /\ getLoad(variant, CurServers[1]) = 2
    /\ MaxWeight(AssignedTasks) = 2

\* Server i of the pool has id i.
IdsAreIndices(pool) == \A i \in DOMAIN pool : getId(pool[i]) = i

\* C24: in every pool a LoadBalancer built, and in every copy a policy object
\* holds, the server at index i has id i; so on S >= 1 servers the cursor of
\* Round-Robin, the id Weighted-Round-Robin stored as its cursor and the id
\* Active-Clustering is about to index with are in 0..S-1 after any number of
\* assignments, and none of the three reaches outside its vector.
C24_IdsIndexThePool ==
    [](/\ \A p \in Policies : IdsAreIndices(lbServers[p])
       /\ \A o \in Objects : IdsAreIndices(algServers[o])
       /\ \A o \in Objects :
             LET servers == Deref(alg[o].servers)
             IN (alg[o].type # "none" /\ size(servers) >= 1)
                   => /\ alg[o].type \in {"RoundRobin", "WeightedRoundRobin"}
                            => alg[o].currentServer \in 0..(size(servers) - 1)
                      /\ alg[o].type = "ActiveClustering"
                            => MinLoadServer(variant, servers)
                                  \in 0..(size(servers) - 1)
                      /\ (/\ pc = "running"
                          /\ active = o
                          /\ alg[o].type \in {"RoundRobin", "WeightedRoundRobin",
                                              "ActiveClustering"})
                            => ub = {})

\* Weighted-Round-Robin, run by a LoadBalancer on its two servers, has placed
\* three tasks: the id it stored is 1, the index of the server with that id.
C24_Witness ==
    /\ Running("WeightedRoundRobin")
    /\ active = 0
    /\ size(CurServers) = 2
    /\ taskId = 3
    /\ Cur.currentServer = 1
    /\ getId(CurServers[1]) = 1
    /\ getLoad(variant, CurServers[1]) < getLoad(variant, CurServers[0])

\* C25: with the queue-based Server, getLoad() counts the addLoad calls since
\* the last reset, whatever the amounts: while a policy places the tasks of a
\* call, the sum of getLoad() over its servers is the sum at entry (0 on a
\* fresh pool, and 0 again after the reset that ends an Ant-Colony-Optimization
\* iteration) plus the number of tasks placed, not their weights; and
\* Active-Clustering, comparing these counts, deals the tasks of a call that
\* began at load 0 out evenly: server i holds ceil((n - i) / S) of the first
\* n tasks.
C25_QueueLoadCountsTasks ==
    (/\ pc = "running"
     /\ variant = "queue"
     /\ size(CurServers) >= 1)
        => /\ Cur.type \in FourPolicies
                 => TotalLoad(variant, CurServers) = SumPreLoads(0) + taskId
           /\ (Cur.type = "AntColonyOptimization" /\ phase = "move")
                 => TotalLoad(variant, CurServers) = IterationBase + taskId
           /\ (Cur.type = "ActiveClustering" /\ FromZero)
                 => \A i \in DOMAIN CurServers :
                       /\ getLoad(variant, CurServers[i])
                            = (taskId + size(CurServers) - 1 - i)
                                 \div size(CurServers)
                       /\ Len(CurServers[i].loads)
                            = getLoad(variant, CurServers[i])

\* Active-Clustering on two queue-based servers has placed the tasks 2, 1, 1
\* from load 0: the third went to server 0, which already held weight 2,
\* because both servers held one task; the loads reported sum to 3, the
\* weights to 4.
C25_Witness ==
    /\ Running("ActiveClustering")
    /\ variant = "queue"
    /\ FromZero
    /\ size(CurServers) = 2
    /\ taskLoads = <<2, 1, 1>>
    /\ taskId = 3
    /\ CurServers[0].loads = <<2, 1>>
    /\ CurServers[1].loads = <<1>>
    /\ TotalLoad(variant, CurServers) = 3
    /\ SumSeq(taskLoads) = 4

====
